---- MODULE Spec2Model ----
(***************************************************************************)
(* Model of mapproxy/client/http.py: the session cache behind              *)
(* create_url_opener, HTTPClient.__init__ / HTTPClient.open with its       *)
(* failure classification, and auth_data_from_url.                         *)
(*                                                                         *)
(* Python values are encoded as follows.  None is the empty tuple and a    *)
(* present value x is <<x>> wherever a field is optional; a str that is    *)
(* taken apart (a URL) is a sequence of one-character strings; an          *)
(* exception is a record carrying its class and its args tuple; a message  *)
(* built by %-formatting is the sequence of the pieces formatted into it.  *)
(***************************************************************************)
EXTENDS Integers, Sequences, FiniteSets, TLC

VARIABLES
    self,          \* Spec: the HTTPClient used by open (its hide_error_details)
    last,          \* Spec: record of the most recent call of open, or NoCall
    prevFailure,   \* Spec: the failure of the call before it, or NoFailure
    _opener,       \* _URLOpenerCache._opener: cache_key -> session identity
    sessions,      \* heap of requests.Session objects, identity = index
    clients,       \* SpecCache: the HTTPClient objects constructed so far
    stored,        \* ghost: every (cache_key, session) pair ever inserted
    thr,           \* SpecConc: per thread, its position in HTTPClient.__init__
    url_in,        \* SpecUrl: the argument of auth_data_from_url
    url_out,       \* SpecUrl: its return value
    url_pc         \* SpecUrl: "call" before, "done" after the call

vars == <<self, last, prevFailure, _opener, sessions, clients, stored, thr,
          url_in, url_out, url_pc>>

None == <<>>
Some(x) == <<x>>

(***************************************************************************)
(* Bounds of the model.                                                    *)
(***************************************************************************)
MaxArgs == 2       \* longest exception args tuple the transport may raise
MaxClients == 2    \* HTTPClient constructions in one sequential run
NumThreads == 2    \* threads constructing HTTPClient objects concurrently
MaxLen == 6        \* longest URL text after the fixed prefix

(***************************************************************************)
(* The session cache: _URLOpenerCache and HTTPClient.__init__.             *)
(***************************************************************************)
HttpUrl == <<"h", "t", "t", "p", ":", "/", "/", "a">>
HttpsUrl == <<"h", "t", "t", "p", "s", ":", "/", "/", "a">>

\* The keyword arguments of HTTPClient(...) that reach the cache.
CtorArgs ==
    [url : {None, Some(HttpUrl), Some(HttpsUrl)},
     credentials : {<<None, None>>, <<Some(<<"u", "1">>), Some(<<"p", "1">>)>>,
                    <<Some(<<"u", "2">>), Some(<<"p", "2">>)>>},
     insecure : BOOLEAN,
     ssl_ca_certs : {None, Some(<<"c", "a">>)},
     manage_cookies : BOOLEAN]

\* The arguments the concurrent runs use.
ConcArgs ==
    {a \in CtorArgs : a.url = Some(HttpUrl) /\ ~a.insecure /\ ~a.manage_cookies
                      /\ a.credentials[1] # Some(<<"u", "2">>)}

\* str.startswith
startswith(text, prefix) ==
    Len(text) >= Len(prefix) /\ SubSeq(text, 1, Len(prefix)) = prefix

\* Truth value of an optional str: None and '' are false.
Truthy(x) == x # None /\ x[1] # <<>>

\* requests.Session(): a fresh session with the library's defaults.
NewSession ==
    [cert |-> None, verify |-> TRUE, auth |-> None, user_agent |-> "python-requests"]

\* A cache key that leaves manage_cookies out.
cache_key_without_cookies(ssl_ca_certs, insecure, manage_cookies) ==
    <<ssl_ca_certs, insecure, FALSE>>

\* cache_key = (ssl_ca_certs, insecure, manage_cookies)
cache_key(ssl_ca_certs, insecure, manage_cookies) ==
    <<ssl_ca_certs, insecure, manage_cookies>>

\* Lines 124-138: what a cache miss does to the fresh session.
Configure(s, ssl_ca_certs, username, password, insecure) ==
    [s EXCEPT !.cert = IF Truthy(ssl_ca_certs) THEN ssl_ca_certs ELSE @,
              !.verify = IF insecure THEN FALSE ELSE @,
              !.auth = IF Truthy(username) /\ Truthy(password)
                       THEN Some(<<username[1], password[1]>>) ELSE @,
              !.user_agent = "MapProxy-version"]

\* __init__ without the override of lines 155-157.
EffectiveCaCerts_kept(a) == a.ssl_ca_certs

\* HTTPClient.__init__, lines 155-157: the ssl_ca_certs handed to the cache.
EffectiveCaCerts(a) ==
    IF a.url # None /\ startswith(a.url[1], <<"h", "t", "t", "p", "s">>) /\ a.insecure
    THEN None
    ELSE a.ssl_ca_certs

KeyOf(a) == cache_key(EffectiveCaCerts(a), a.insecure, a.manage_cookies)

\* A cache that stores the session of every call.
CacheMiss_always(key) == TRUE

\* The membership test of line 123.
CacheMiss(key) == key \notin DOMAIN _opener

\* HTTPClient(**a), run to completion without interruption: __init__ and the
\* whole of _URLOpenerCache.__call__.  Every call allocates a session object
\* (line 120); only a miss configures and stores it.
NewClient ==
    \E a \in CtorArgs :
        LET key == KeyOf(a)
            s == Len(sessions) + 1
        IN /\ Len(clients) < MaxClients
           /\ IF CacheMiss(key)
              THEN /\ sessions' = Append(sessions,
                          Configure(NewSession, EffectiveCaCerts(a),
                                    a.credentials[1], a.credentials[2], a.insecure))
                   /\ _opener' = (key :> s) @@ _opener
                   /\ stored' = stored \cup {<<key, s>>}
                   /\ clients' = Append(clients, [opener |-> s, args |-> a])
              ELSE /\ sessions' = Append(sessions, NewSession)
                   /\ UNCHANGED <<_opener, stored>>
                   /\ clients' = Append(clients, [opener |-> _opener[key], args |-> a])
           /\ UNCHANGED <<self, last, prevFailure, thr, url_in, url_out, url_pc>>

(***************************************************************************)
(* Inputs of HTTPClient.open.                                              *)
(***************************************************************************)
Urls == {"http://a/x", "http://b/y"}
Methods == {"GET"}
Reasons == {"r1", "r2"}
StatusCodes == {200, 204, 301, 404, 500}
ErrorCodes == {404, 500}

\* args tuples of an exception: every length up to MaxArgs.
ArgsTuples == {[i \in 1..n |-> r] : n \in 0..MaxArgs, r \in Reasons}

\* What requests.Request(url=url, data=data) does: gives the request object,
\* or raises the ValueError the first try statement of open catches.
BuildOutcomes ==
    {[cls |-> "Request"]} \cup {[cls |-> "ValueError", args |-> a] : a \in ArgsTuples}

\* A requests.Response: it has status_code, headers and content, and no
\* attribute named code.
Responses == {[cls |-> "Response", status_code |-> s] : s \in StatusCodes}

\* The reason of a URLError: a plain str (no args attribute), an ssl.SSLError
\* or another OSError, each with its args tuple.
UrlErrorReasons ==
    {[cls |-> "str", args |-> <<r>>] : r \in Reasons}
    \cup {[cls |-> c, args |-> a] : c \in {"SSLError", "OSError"}, a \in ArgsTuples}

\* What self.opener.send(self.opener.prepare_request(req)) does: returns a
\* response, or raises an exception of one of the classes open tells apart.
TransportOutcomes ==
    Responses
    \cup {[cls |-> "HTTPError", code |-> c] : c \in ErrorCodes}
    \cup {[cls |-> "URLError", reason |-> r] : r \in UrlErrorReasons}
    \cup {[cls |-> "ValueError", args |-> a] : a \in ArgsTuples}
    \cup {[cls |-> c, args |-> <<r>>] : c \in {"ConnectionError", "Timeout"}, r \in Reasons}

(***************************************************************************)
(* Python built-ins used by open.                                          *)
(***************************************************************************)
\* getattr(obj, name, default)
getattr(obj, name, default) == IF name \in DOMAIN obj THEN obj[name] ELSE default

\* str(x) for a str or an exception with fewer than two args.
str(x) ==
    IF x.cls = "str" THEN x.args[1]
    ELSE IF Len(x.args) = 0 THEN ""
    ELSE IF Len(x.args) = 1 THEN x.args[1]
    ELSE "(" \o x.args[1] \o ", " \o x.args[2] \o ")"

\* repr(e) for an exception: the class name and the args.
repr(e) ==
    IF Len(e.args) = 0 THEN e.cls \o "()"
    ELSE IF Len(e.args) = 1 THEN e.cls \o "(" \o e.args[1] \o ")"
    ELSE e.cls \o "(" \o e.args[1] \o ", " \o e.args[2] \o ")"

(***************************************************************************)
(* Exceptions that leave open.  message and reason record the arguments    *)
(* handle_url_exception was called with; they are not attributes of the    *)
(* Python object.                                                          *)
(***************************************************************************)
HTTPClientError(arg, response_code, full_msg) ==
    [cls |-> "HTTPClientError", arg |-> arg, response_code |-> response_code,
     full_msg |-> full_msg, message |-> None, reason |-> None]

\* e.args[k] with k beyond the tuple, raised inside an except clause.
IndexError ==
    [cls |-> "IndexError", arg |-> <<"tuple index out of range">>,
     response_code |-> None, full_msg |-> None, message |-> None, reason |-> None]

\* Whatever log_request raises when it fails.
LogRequestError ==
    [cls |-> "LogRequestError", arg |-> <<"log_request failed">>,
     response_code |-> None, full_msg |-> None, message |-> None, reason |-> None]

SeeLogs == "(see logs for URL and reason)."

\* handle_url_exception with the hide_error_details test left out.
handle_url_exception_unhidden(c, url, message, reason, response_code) ==
    [HTTPClientError(<<message, url, reason>>, response_code, None)
        EXCEPT !.message = Some(message), !.reason = Some(reason)]

\* HTTPClient.handle_url_exception
handle_url_exception(c, url, message, reason, response_code) ==
    LET full_msg == <<message, url, reason>>
        err == IF c.hide_error_details
               THEN HTTPClientError(<<message, SeeLogs>>, response_code, Some(full_msg))
               ELSE HTTPClientError(full_msg, response_code, None)
    IN [err EXCEPT !.message = Some(message), !.reason = Some(reason)]

Return(result) == [how |-> "return", result |-> Some(result), exc |-> None]
Raise(e) == [how |-> "raise", result |-> None, exc |-> Some(e)]

(***************************************************************************)
(* HTTPClient.open, lines 176-210: the second try statement.  The result   *)
(* is the value of code and of result when the finally clause runs, and    *)
(* the pending outcome (the value being returned or the exception being    *)
(* raised at that point).                                                  *)
(***************************************************************************)
Dispatch(c, url, tr) ==
    CASE tr.cls = "HTTPError" ->
           [code |-> Some(tr.code), result |-> None,
            pending |-> Raise(handle_url_exception(c, url, "HTTP Error",
                                                   ToString(tr.code), Some(tr.code)))]
      [] tr.cls = "URLError" ->
           [code |-> None, result |-> None,
            pending |->
              IF tr.reason.cls = "SSLError"
              THEN IF Len(tr.reason.args) >= 2
                   THEN Raise(handle_url_exception(c, url,
                              "Could not verify connection to URL", tr.reason.args[2], None))
                   ELSE Raise(IndexError)
              ELSE LET reason == IF tr.reason.cls # "str" /\ Len(tr.reason.args) >= 2
                                 THEN tr.reason.args[2]
                                 ELSE str(tr.reason)
                   IN Raise(handle_url_exception(c, url, "No response from URL",
                                                 reason, None))]
      [] tr.cls = "ValueError" ->
           [code |-> None, result |-> None,
            pending |->
              IF Len(tr.args) >= 1
              THEN Raise(handle_url_exception(c, url, "URL not correct", tr.args[1], None))
              ELSE Raise(IndexError)]
      [] tr.cls = "Response" ->
           LET code == getattr(tr, "code", 200)
           IN [code |-> Some(code), result |-> Some(tr),
               pending |->
                 IF code = 204
                 THEN Raise(HTTPClientError(<<"HTTP Error \"204 No Content\"">>,
                                            Some(204), None))
                 ELSE Return(tr)]
      [] OTHER ->
           [code |-> None, result |-> None,
            pending |-> Raise(handle_url_exception(c, url, "Internal HTTP error",
                                                   repr(tr), None))]

\* log_request(url, code, result, duration=..., method=req.method): the
\* arguments the collaborator receives.
log_request(url, code, result, method) ==
    [url |-> url, code |-> code, result |-> result, method |-> method]

(***************************************************************************)
(* HTTPClient.open as a whole.  bld is what building the request does, tr  *)
(* what the transport does, lg whether log_request raises.  The value is   *)
(* the record of the call: its arguments, what was sent, every             *)
(* log_request call it made, the outcome that was pending when the finally *)
(* clause started, and the outcome the caller sees.                        *)
(***************************************************************************)
open(c, url, method, bld, tr, lg) ==
    IF bld.cls = "ValueError"
    THEN LET out == IF Len(bld.args) >= 1
                    THEN Raise(handle_url_exception(c, url, "URL not correct",
                                                    bld.args[1], None))
                    ELSE Raise(IndexError)
         IN [url |-> url, method |-> method, built |-> FALSE, sent |-> None,
             cause |-> Some(bld), logs |-> <<>>, log_raised |-> FALSE,
             pending |-> out, outcome |-> out]
    ELSE LET d == Dispatch(c, url, tr)
         IN [url |-> url, method |-> method, built |-> TRUE, sent |-> Some(tr),
             cause |-> IF tr.cls = "Response" THEN None ELSE Some(tr),
             logs |-> <<log_request(url, d.code, d.result, method)>>,
             log_raised |-> lg,
             pending |-> d.pending,
             outcome |-> IF lg THEN Raise(LogRequestError) ELSE d.pending]

\* The failure of a call as a later call is compared with it: the exception,
\* the URL and whether the client hides error details.
FailureOf(c, call) ==
    IF call = None \/ call[1].outcome.how # "raise" THEN None
    ELSE Some([exc |-> call[1].outcome.exc[1], url |-> call[1].url,
               hide |-> c.hide_error_details])

\* One call of open: its arguments and what the collaborators do during it.
\* Nothing is sent and nothing is logged when building the request fails, so
\* the transport and log_request get no say in that case.
NotSent == [cls |-> "NotSent"]

Open ==
    \E url \in Urls, method \in Methods, bld \in BuildOutcomes,
       tr \in TransportOutcomes \cup {NotSent}, lg \in BOOLEAN :
        /\ IF bld.cls = "ValueError" THEN tr = NotSent /\ ~lg ELSE tr # NotSent
        /\ last' = Some(open(self, url, method, bld, tr, lg))
        /\ prevFailure' = FailureOf(self, last)
        /\ UNCHANGED <<self, _opener, sessions, clients, stored, thr,
                       url_in, url_out, url_pc>>

Init ==
    /\ self \in {[hide_error_details |-> h] : h \in BOOLEAN}
    /\ last = None
    /\ prevFailure = None
    /\ _opener = <<>>
    /\ sessions = <<>>
    /\ clients = <<>>
    /\ stored = {}
    /\ thr = <<>>
    /\ url_in = <<>>
    /\ url_out = <<>>
    /\ url_pc = "idle"

Next == Open

Spec == Init /\ [][Next]_vars

(***************************************************************************)
(* Properties of HTTPClient.open, checked under Spec.                      *)
(***************************************************************************)
Called == last # None
Call == last[1]
Raised(call) == call.outcome.how = "raise"
Exc(call) == call.outcome.exc[1]
RaisedClientError(call) == Raised(call) /\ Exc(call).cls = "HTTPClientError"
Contains(msg, piece) == \E i \in 1..Len(msg) : msg[i] = piece
IsHttpErrorStatus(status) == status >= 400 /\ status <= 599

\* C1: every call of open, whatever its outcome (a ValueError while the
\* request object is built included), calls log_request exactly once.
C1_LogExactlyOnce == Called => Len(Call.logs) = 1

\* C4: whenever the transport returns a response with status 204, open
\* raises HTTPClientError with response_code 204 and never returns the
\* response (stated for the calls in which log_request does not raise).
C4_NoContentIsFailure ==
    (Called /\ ~Call.log_raised /\ Call.sent # None
        /\ Call.sent[1].cls = "Response" /\ Call.sent[1].status_code = 204)
    => (RaisedClientError(Call) /\ Exc(Call).response_code = Some(204))

\* C5: an exchange that ends with a 4xx/5xx status makes open raise the
\* 'HTTP Error' HTTPClientError with that status as response_code, and open
\* returns a response only for a 2xx/3xx status (stated for the calls in
\* which log_request does not raise; status 204 is C4's case).
C5_ErrorStatusIsFailure ==
    (Called /\ ~Call.log_raised /\ Call.sent # None) =>
        LET tr == Call.sent[1] IN
        /\ (tr.cls = "Response" /\ IsHttpErrorStatus(tr.status_code))
              => (RaisedClientError(Call)
                    /\ Exc(Call).message = Some("HTTP Error")
                    /\ Exc(Call).response_code = Some(tr.status_code))
        /\ tr.cls = "HTTPError"
              => (RaisedClientError(Call)
                    /\ Exc(Call).message = Some("HTTP Error")
                    /\ Exc(Call).response_code = Some(tr.code))
        /\ Call.outcome.how = "return"
              => (tr.cls = "Response" /\ tr.status_code >= 200
                    /\ tr.status_code <= 399)

\* C6: every exception raised while open builds or dispatches the request,
\* whatever the length of its args, reaches the caller as an HTTPClientError
\* (stated for the calls in which log_request does not raise).
C6_OnlyClientErrorEscapes ==
    (Called /\ ~Call.log_raised /\ Call.cause # None) => RaisedClientError(Call)

\* C7: with hide_error_details set, the message of the HTTPClientError open
\* raises contains neither the URL nor the reason, and two calls failing
\* with the same kind carry the same message whatever their URL and reason.
C7_HiddenMessageIsGeneric ==
    (Called /\ self.hide_error_details /\ RaisedClientError(Call)) =>
        /\ ~Contains(Exc(Call).arg, Call.url)
        /\ Exc(Call).reason # None => ~Contains(Exc(Call).arg, Exc(Call).reason[1])
        /\ (prevFailure # None /\ prevFailure[1].exc.cls = "HTTPClientError"
              /\ prevFailure[1].exc.message = Exc(Call).message)
           => prevFailure[1].exc.arg = Exc(Call).arg

\* C7 witness: two consecutive hidden failures of one kind whose URLs and
\* reasons both differ.
C7_Witness ==
    /\ Called /\ self.hide_error_details /\ RaisedClientError(Call)
    /\ prevFailure # None /\ prevFailure[1].exc.cls = "HTTPClientError"
    /\ Exc(Call).message # None
    /\ prevFailure[1].exc.message = Exc(Call).message
    /\ prevFailure[1].url # Call.url
    /\ prevFailure[1].exc.reason # Exc(Call).reason

\* Whether a log_request call hands the text x to the collaborator.
Delivers(lr, x) ==
    \/ lr.url = x
    \/ lr.method = x
    \/ lr.code # None /\ ToString(lr.code[1]) = x

\* The same call made through a client whose hide_error_details is flipped.
Replayed(call) ==
    open([self EXCEPT !.hide_error_details = ~self.hide_error_details],
         call.url, call.method,
         IF call.built THEN [cls |-> "Request"] ELSE call.cause[1],
         IF call.built THEN call.sent[1] ELSE NotSent,
         call.log_raised)

\* C8: for every failure open classifies, log_request receives both the URL
\* and the underlying reason, and receives the same whether
\* hide_error_details is true or false (stated for the failures of a request
\* that was built, the ones for which log_request is called at all).
C8_LogGetsUrlAndReason ==
    (Called /\ Call.built /\ RaisedClientError(Call) /\ Exc(Call).reason # None) =>
        /\ \E i \in 1..Len(Call.logs) :
              /\ Delivers(Call.logs[i], Call.url)
              /\ Delivers(Call.logs[i], Exc(Call).reason[1])
        /\ Replayed(Call).logs = Call.logs

\* C9: if log_request raises, the caller still receives the outcome that
\* was pending: the response being returned or the HTTPClientError being
\* raised.
C9_LogFailureDoesNotMask ==
    (Called /\ Call.log_raised) => Call.outcome = Call.pending

(***************************************************************************)
(* Sequential constructions.                                               *)
(***************************************************************************)
InitCache ==
    /\ self = [hide_error_details |-> FALSE]
    /\ last = None
    /\ prevFailure = None
    /\ _opener = <<>>
    /\ sessions = <<>>
    /\ clients = <<>>
    /\ stored = {}
    /\ thr = <<>>
    /\ url_in = <<>>
    /\ url_out = <<>>
    /\ url_pc = "idle"

NextCache == NewClient

SpecCache == InitCache /\ [][NextCache]_vars

\* The (ssl_ca_certs, insecure, manage_cookies) tuple in effect for a
\* constructor call, read off its arguments.
EffectiveTuple(a) ==
    <<IF a.insecure /\ a.url = Some(HttpsUrl) THEN None ELSE a.ssl_ca_certs,
      a.insecure, a.manage_cookies>>

\* C2: after any sequential series of constructions, two clients hold the
\* same session object exactly when their effective tuples are equal.
C2_SameTupleSameSession ==
    \A i, j \in 1..Len(clients) :
        (EffectiveTuple(clients[i].args) = EffectiveTuple(clients[j].args))
            <=> (clients[i].opener = clients[j].opener)

\* C2 witness: two clients built with different arguments but equal
\* effective tuples, sharing one session.
C2_Witness ==
    \E i, j \in 1..Len(clients) :
        /\ i < j
        /\ clients[i].args # clients[j].args
        /\ EffectiveTuple(clients[i].args) = EffectiveTuple(clients[j].args)
        /\ clients[i].opener = clients[j].opener

(***************************************************************************)
(* Concurrent constructions: each thread runs HTTPClient(...) once, and a  *)
(* thread switch may fall between the membership test of line 123 and the  *)
(* insertion of line 140 or the lookup of line 142.                        *)
(***************************************************************************)
Threads == 1..NumThreads

\* Lines 120-123: allocate the session, build the key, test membership.
CallTest(t) ==
    \E a \in ConcArgs :
        /\ thr[t].pc = "start"
        /\ sessions' = Append(sessions, NewSession)
        /\ thr' = [thr EXCEPT ![t] =
                      [pc |-> IF CacheMiss(KeyOf(a)) THEN "miss" ELSE "hit",
                       args |-> Some(a), s |-> Len(sessions) + 1, opener |-> 0]]
        /\ UNCHANGED <<self, last, prevFailure, _opener, clients, stored,
                       url_in, url_out, url_pc>>

\* Lines 124-140: configure the session and store it under the key.
CallStore(t) ==
    /\ thr[t].pc = "miss"
    /\ LET a == thr[t].args[1]
           key == KeyOf(a)
       IN /\ sessions' = [sessions EXCEPT ![thr[t].s] =
                             Configure(@, EffectiveCaCerts(a), a.credentials[1],
                                       a.credentials[2], a.insecure)]
          /\ _opener' = (key :> thr[t].s) @@ _opener
          /\ stored' = stored \cup {<<key, thr[t].s>>}
    /\ thr' = [thr EXCEPT ![t].pc = "done", ![t].opener = thr[t].s]
    /\ UNCHANGED <<self, last, prevFailure, clients, url_in, url_out, url_pc>>

\* Line 142: take the session stored under the key.
CallLoad(t) ==
    /\ thr[t].pc = "hit"
    /\ thr' = [thr EXCEPT ![t].pc = "done",
                          ![t].opener = _opener[KeyOf(thr[t].args[1])]]
    /\ UNCHANGED <<self, last, prevFailure, _opener, sessions, clients, stored,
                   url_in, url_out, url_pc>>

InitConc ==
    /\ self = [hide_error_details |-> FALSE]
    /\ last = None
    /\ prevFailure = None
    /\ _opener = <<>>
    /\ sessions = <<>>
    /\ clients = <<>>
    /\ stored = {}
    /\ thr = [t \in Threads |-> [pc |-> "start", args |-> None, s |-> 0, opener |-> 0]]
    /\ url_in = <<>>
    /\ url_out = <<>>
    /\ url_pc = "idle"

NextConc == \E t \in Threads : CallTest(t) \/ CallStore(t) \/ CallLoad(t)

SpecConc == InitConc /\ [][NextConc]_vars

\* C3: when threads construct clients concurrently for the same tuple, at
\* most one session is ever stored for that tuple and all those clients hold
\* that one session, for every interleaving of test and insertion.
C3_OneSessionPerTuple ==
    /\ \A p, q \in stored : p[1] = q[1] => p[2] = q[2]
    /\ \A t, u \in Threads :
          (thr[t].pc = "done" /\ thr[u].pc = "done"
              /\ KeyOf(thr[t].args[1]) = KeyOf(thr[u].args[1]))
          => thr[t].opener = thr[u].opener

(***************************************************************************)
(* auth_data_from_url.  A URL is a sequence of one-character strings.      *)
(***************************************************************************)
Alphabet == {"a", ":", "/", "@"}
SchemeSep == <<":", "/", "/">>

Strings(n) == UNION {[1..k -> Alphabet] : k \in 0..n}

\* The arguments tried: every text up to MaxLen, bare and behind "a://".
UrlInputs == Strings(MaxLen) \cup {<<"a">> \o SchemeSep \o r : r \in Strings(MaxLen)}

\* The start positions of sep in text.
Occurrences(text, sep) ==
    {i \in 1..(Len(text) - Len(sep) + 1) : SubSeq(text, i, i + Len(sep) - 1) = sep}

Min(S) == CHOOSE x \in S : \A y \in S : x <= y
Max(S) == CHOOSE x \in S : \A y \in S : x >= y

\* sep in text
In(sep, text) == Occurrences(text, sep) # {}

CutAt(text, i, sep) == <<SubSeq(text, 1, i - 1), SubSeq(text, i + Len(sep), Len(text))>>

\* text.split(sep, 1) for a text that contains sep: cut at the first sep.
split1(text, sep) == CutAt(text, Min(Occurrences(text, sep)), sep)

\* rsplit written as split: the cut falls at the first sep.
rsplit1_at_first(text, sep) == CutAt(text, Min(Occurrences(text, sep)), sep)

\* text.rsplit(sep, 1) for a text that contains sep: cut at the last sep.
rsplit1(text, sep) == CutAt(text, Max(Occurrences(text, sep)), sep)

\* auth_data_from_url with the '://' test left out: a text without '://' is
\* taken to be all scheme (guarded = FALSE), or with the '@' looked for
\* before the path is cut off (atBeforePath = TRUE).
auth_data_variant(url, guarded, atBeforePath) ==
    IF url = <<>> \/ (guarded /\ ~In(SchemeSep, url))
    THEN [url |-> url, username |-> None, password |-> None]
    ELSE LET hasSep == In(SchemeSep, url)
             schema == IF hasSep THEN split1(url, SchemeSep)[1] ELSE url
             rest0 == IF hasSep THEN split1(url, SchemeSep)[2] ELSE <<>>
             early == atBeforePath /\ In(<<"@">>, rest0)
             rest == IF early THEN rsplit1(rest0, <<"@">>)[2] ELSE rest0
             host0 == IF In(<<"/">>, rest) THEN split1(rest, <<"/">>)[1] ELSE rest
             request == IF In(<<"/">>, rest) THEN split1(rest, <<"/">>)[2] ELSE <<>>
             hasAuth == early \/ In(<<"@">>, host0)
             auth_data == IF early THEN rsplit1(rest0, <<"@">>)[1]
                          ELSE IF hasAuth THEN rsplit1(host0, <<"@">>)[1] ELSE <<>>
             host == IF ~early /\ hasAuth THEN rsplit1(host0, <<"@">>)[2] ELSE host0
             hasPw == hasAuth /\ In(<<":">>, auth_data)
         IN [url |-> schema \o SchemeSep \o host \o <<"/">> \o request,
             username |-> IF ~hasAuth THEN None
                          ELSE IF hasPw THEN Some(split1(auth_data, <<":">>)[1])
                          ELSE Some(auth_data),
             password |-> IF hasPw THEN Some(split1(auth_data, <<":">>)[2]) ELSE None]

auth_data_from_url_at_before_path(url) == auth_data_variant(url, TRUE, TRUE)

auth_data_from_url_unguarded(url) == auth_data_variant(url, FALSE, FALSE)

\* auth_data_from_url(url): (url, (username, password))
auth_data_from_url(url) ==
    IF url = <<>> \/ ~In(SchemeSep, url)
    THEN [url |-> url, username |-> None, password |-> None]
    ELSE LET schema == split1(url, SchemeSep)[1]
             rest == split1(url, SchemeSep)[2]
             host0 == IF In(<<"/">>, rest) THEN split1(rest, <<"/">>)[1] ELSE rest
             request == IF In(<<"/">>, rest) THEN split1(rest, <<"/">>)[2] ELSE <<>>
             hasAuth == In(<<"@">>, host0)
             auth_data == IF hasAuth THEN rsplit1(host0, <<"@">>)[1] ELSE <<>>
             host == IF hasAuth THEN rsplit1(host0, <<"@">>)[2] ELSE host0
             hasPw == hasAuth /\ In(<<":">>, auth_data)
         IN [url |-> schema \o SchemeSep \o host \o <<"/">> \o request,
             username |-> IF ~hasAuth THEN None
                          ELSE IF hasPw THEN Some(split1(auth_data, <<":">>)[1])
                          ELSE Some(auth_data),
             password |-> IF hasPw THEN Some(split1(auth_data, <<":">>)[2]) ELSE None]

AuthDataFromUrl ==
    /\ url_pc = "call"
    /\ url_out' = auth_data_from_url(url_in)
    /\ url_pc' = "done"
    /\ UNCHANGED <<self, last, prevFailure, _opener, sessions, clients, stored,
                   thr, url_in>>

InitUrl ==
    /\ self = [hide_error_details |-> FALSE]
    /\ last = None
    /\ prevFailure = None
    /\ _opener = <<>>
    /\ sessions = <<>>
    /\ clients = <<>>
    /\ stored = {}
    /\ thr = <<>>
    /\ url_in \in UrlInputs
    /\ url_out = [url |-> <<>>, username |-> None, password |-> None]
    /\ url_pc = "call"

\* auth_data_from_url applied to the URL it returned.
AuthDataFromUrlAgain ==
    /\ url_pc = "done"
    /\ url_out' = auth_data_from_url(url_out.url)
    /\ url_pc' = "again"
    /\ UNCHANGED <<self, last, prevFailure, _opener, sessions, clients, stored,
                   thr, url_in>>

NextUrl == AuthDataFromUrl \/ AuthDataFromUrlAgain

SpecUrl == InitUrl /\ [][NextUrl]_vars

\* url = scheme :// userinfo @ host / path, where the "://" at a is the first
\* one, the "/" at c the first one after it, and the "@" at b the last one of
\* the authority between them.
Has(text, ch) == \E i \in 1..Len(text) : text[i] = ch

Decomposes(url, a, b, c) ==
    /\ a + 3 <= b /\ b < c /\ c <= Len(url)
    /\ SubSeq(url, a, a + 2) = SchemeSep
    /\ \A i \in 1..(a - 1) : SubSeq(url, i, i + 2) # SchemeSep
    /\ url[b] = "@" /\ url[c] = "/"
    /\ ~Has(SubSeq(url, a + 3, c - 1), "/")
    /\ ~Has(SubSeq(url, b + 1, c - 1), "@")

\* C10: for scheme://userinfo@host/path with an '@' in the authority, the
\* authority is split at its last '@' and the userinfo at its first ':':
\* the username is the text before that ':', the password everything after
\* it verbatim, None when there is no ':', and the returned URL is
\* scheme + '://' + host + '/' + path.
C10_SplitsAtLastAtFirstColon ==
    url_pc = "done" =>
        \A a, b, c \in 1..Len(url_in) :
            Decomposes(url_in, a, b, c) =>
                LET scheme == SubSeq(url_in, 1, a - 1)
                    userinfo == SubSeq(url_in, a + 3, b - 1)
                    host == SubSeq(url_in, b + 1, c - 1)
                    path == SubSeq(url_in, c + 1, Len(url_in))
                IN /\ url_out.url = scheme \o SchemeSep \o host \o <<"/">> \o path
                   /\ ~Has(userinfo, ":") =>
                         (url_out.username = Some(userinfo) /\ url_out.password = None)
                   /\ \A k \in 1..Len(userinfo) :
                         (userinfo[k] = ":" /\ ~Has(SubSeq(userinfo, 1, k - 1), ":"))
                         => /\ url_out.username = Some(SubSeq(userinfo, 1, k - 1))
                            /\ url_out.password
                                 = Some(SubSeq(userinfo, k + 1, Len(userinfo)))

\* C10 witness: a call whose password holds both a ':' and an '@', with a
\* username and a host that are not empty.
C10_Witness ==
    /\ url_pc = "done"
    /\ \E a, b, c \in 1..Len(url_in) : Decomposes(url_in, a, b, c)
    /\ url_out.username # None /\ url_out.username # Some(<<>>)
    /\ url_out.password # None
    /\ Has(url_out.password[1], ":") /\ Has(url_out.password[1], "@")
    /\ Len(url_out.url) < Len(url_in) - 4

\* The "://" at a is the first one of url and the "/" at c the first one
\* after it: the authority is the text between them.
Authority(url, a, c) ==
    /\ a + 3 <= c /\ c <= Len(url)
    /\ SubSeq(url, a, a + 2) = SchemeSep
    /\ \A i \in 1..(a - 1) : SubSeq(url, i, i + 2) # SchemeSep
    /\ url[c] = "/"
    /\ ~Has(SubSeq(url, a + 3, c - 1), "/")

HasSchemeSep(url) == \E i \in 1..(Len(url) - 2) : SubSeq(url, i, i + 2) = SchemeSep

NoCredentials(out) == out.username = None /\ out.password = None

\* C11: a URL scheme://host/path without '@' in its authority comes back
\* unchanged with credentials (None, None), whatever '@' and ':' its path
\* holds; and in every URL the text from the first '/' on is returned as it
\* is, so an '@' in the path never separates credentials.
C11_AtInPathIsNotSeparator ==
    url_pc = "done" =>
        \A a, c \in 1..Len(url_in) :
            Authority(url_in, a, c) =>
                LET tail == SubSeq(url_in, c, Len(url_in))
                    n == Len(url_out.url)
                IN /\ ~Has(SubSeq(url_in, a + 3, c - 1), "@")
                        => (url_out.url = url_in /\ NoCredentials(url_out))
                   /\ n >= a + 2 + Len(tail)
                   /\ SubSeq(url_out.url, n - Len(tail) + 1, n) = tail
                   /\ SubSeq(url_out.url, 1, a + 2) = SubSeq(url_in, 1, a + 2)

\* C11 witness: a URL without '@' in the authority whose path holds both an
\* '@' and a ':'.
C11_Witness ==
    /\ url_pc = "done"
    /\ \E a, c \in 1..Len(url_in) :
          /\ Authority(url_in, a, c)
          /\ a + 3 < c
          /\ ~Has(SubSeq(url_in, a + 3, c - 1), "@")
          /\ Has(SubSeq(url_in, c + 1, Len(url_in)), "@")
          /\ Has(SubSeq(url_in, c + 1, Len(url_in)), ":")
    /\ url_out.url = url_in

\* C12: an input without '://', the empty one included, comes back
\* unchanged with credentials (None, None).
C12_NoSchemePassesThrough ==
    (url_pc = "done" /\ ~HasSchemeSep(url_in))
        => (url_out.url = url_in /\ NoCredentials(url_out))

\* C12 witness: an input without '://' that holds ':', '/' and '@'.
C12_Witness ==
    /\ url_pc = "done" /\ ~HasSchemeSep(url_in)
    /\ Has(url_in, ":") /\ Has(url_in, "/") /\ Has(url_in, "@")
    /\ url_out.url = url_in

\* C20: applied to the URL it returned, auth_data_from_url returns that URL
\* unchanged with credentials (None, None); the URL returned for an input
\* with '://' has a '/' after the host, also when the input had none, and no
\* '@' in its authority.
C20_CleanUrlIsFixedPoint ==
    [][/\ (url_pc = "done" /\ url_pc' = "again")
            => (url_out'.url = url_out.url /\ NoCredentials(url_out'))
       /\ (url_pc = "call" /\ url_pc' = "done" /\ HasSchemeSep(url_in)) =>
             \E a, c \in 1..Len(url_out'.url) :
                 /\ Authority(url_out'.url, a, c)
                 /\ ~Has(SubSeq(url_out'.url, a + 3, c - 1), "@")
                 /\ SubSeq(url_out'.url, 1, a + 2) = SubSeq(url_in, 1, a + 2)]_vars

\* C20 witness: the second application, for an input that carried
\* credentials and had no '/' after its authority.
C20_Witness ==
    /\ url_pc = "again"
    /\ HasSchemeSep(url_in)
    /\ Has(url_in, "@")
    /\ Cardinality({i \in 1..Len(url_in) : url_in[i] = "/"}) = 2
    /\ url_out.url[Len(url_out.url)] = "/"
    /\ NoCredentials(url_out)

(***************************************************************************)
(* Further properties of HTTPClient.open, checked under Spec.              *)
(***************************************************************************)
\* C13: when the request fails before any HTTP response is received
\* (connection refused, timeout, DNS failure), open raises the 'No response
\* from URL' kind, never 'Internal HTTP error' (stated for the calls in
\* which log_request does not raise).
C13_NoResponseKind ==
    (Called /\ ~Call.log_raised /\ Call.sent # None
        /\ \/ Call.sent[1].cls \in {"ConnectionError", "Timeout"}
           \/ (Call.sent[1].cls = "URLError" /\ Call.sent[1].reason.cls # "SSLError"))
    => (RaisedClientError(Call) /\ Exc(Call).message = Some("No response from URL"))

\* C17: what log_request receives describes the outcome: for a received
\* response its status and the response, for an HTTP status error the
\* error's code, and None for both exactly when no response was received.
C17_LogDescribesOutcome ==
    (Called /\ Call.built) =>
        \A i \in 1..Len(Call.logs) :
            LET lr == Call.logs[i]
                tr == Call.sent[1]
            IN /\ tr.cls = "Response"
                    => (lr.code = Some(tr.status_code) /\ lr.result = Some(tr))
               /\ tr.cls = "HTTPError" => lr.code = Some(tr.code)
               /\ (lr.code = None /\ lr.result = None)
                    <=> tr.cls \notin {"Response", "HTTPError"}

(***************************************************************************)
(* Further properties of the session cache, checked under SpecCache.       *)
(***************************************************************************)
HttpsInsecure(a) == a.url = Some(HttpsUrl) /\ a.insecure

\* C14: a client built with an HTTPS URL and insecure set uses the session
\* stored under (None, true, manage_cookies), whatever its ssl_ca_certs, so
\* two such clients with equal manage_cookies share it, and that session
\* carries no CA certificate.
C14_InsecureIgnoresCaCerts ==
    \A i \in 1..Len(clients) :
        HttpsInsecure(clients[i].args) =>
            LET key == <<None, TRUE, clients[i].args.manage_cookies>>
            IN /\ key \in DOMAIN _opener
               /\ _opener[key] = clients[i].opener
               /\ sessions[clients[i].opener].cert = None
               /\ \A j \in 1..Len(clients) :
                     (HttpsInsecure(clients[j].args)
                        /\ clients[j].args.manage_cookies = clients[i].args.manage_cookies)
                     => clients[j].opener = clients[i].opener

\* C14 witness: two HTTPS clients with insecure set, one with and one
\* without ssl_ca_certs, sharing a session.
C14_Witness ==
    \E i, j \in 1..Len(clients) :
        /\ HttpsInsecure(clients[i].args) /\ HttpsInsecure(clients[j].args)
        /\ clients[i].args.ssl_ca_certs = None
        /\ clients[j].args.ssl_ca_certs # None
        /\ clients[i].opener = clients[j].opener

\* C18: no construction changes a session that is stored: every key keeps
\* its session object and that object keeps its cert, verify, auth and
\* headers; a construction whose tuple is already a key adds no key.
C18_StoredSessionIsFrozen ==
    [][/\ \A k \in DOMAIN _opener :
             /\ k \in DOMAIN _opener'
             /\ _opener'[k] = _opener[k]
             /\ sessions'[_opener[k]] = sessions[_opener[k]]
       /\ (Len(clients') = Len(clients) + 1
             /\ EffectiveTuple(clients'[Len(clients')].args) \in DOMAIN _opener)
          => (DOMAIN _opener' = DOMAIN _opener /\ stored' = stored)]_vars

\* C18 witness: after a cache hit by a client with other credentials, the
\* shared session still carries the auth of the client that created it.
C18_Witness ==
    \E i, j \in 1..Len(clients) :
        /\ i < j
        /\ clients[i].opener = clients[j].opener
        /\ clients[i].args.credentials[1] # None
        /\ clients[j].args.credentials # clients[i].args.credentials
        /\ sessions[clients[j].opener].auth
             = Some(<<clients[i].args.credentials[1][1], clients[i].args.credentials[2][1]>>)
        /\ Len(sessions) = Len(clients)

\* The auth a client's own arguments call for.
OwnAuth(a) ==
    IF a.credentials[1] # None /\ a.credentials[2] # None
    THEN Some(<<a.credentials[1][1], a.credentials[2][1]>>)
    ELSE None

\* C19: the basic-auth credentials on the session a client uses are the
\* ones given to that client's own constructor (none if it was given none).
C19_SessionAuthIsOwn ==
    \A i \in 1..Len(clients) :
        sessions[clients[i].opener].auth = OwnAuth(clients[i].args)

(***************************************************************************)
(* The image fetches: HTTPClient.open_image and retrieve_image.            *)
(***************************************************************************)
ImageType == <<"i", "m", "a", "g", "e">>

\* Values of the content-type header a server may send.
ContentTypes == {ImageType, <<"I", "m", "a", "g", "e">>, <<"t", "e", "x", "t">>}

\* A requests.Response as the image fetches read it: status_code, headers
\* (content_type is None when the header is absent) and content.  It has no
\* attribute named code and no attribute named read.
ImageResponses ==
    {[cls |-> "Response", status_code |-> st, headers |-> [content_type |-> h],
      content |-> "body"] : st \in {200, 204}, h \in {None} \cup {Some(t) : t \in ContentTypes}}

\* What the transport does during an image fetch.
ImageTransport == ImageResponses \cup {[cls |-> "ConnectionError", args |-> <<"r1">>]}

\* URLs given to retrieve_image.
ImageUrls ==
    {<<"a">> \o SchemeSep \o <<"a", "/">>,
     <<"a">> \o SchemeSep \o <<"a", ":", "a", "@", "a">>,
     <<"a">> \o SchemeSep \o <<"a", "@", "a", "/">>}

\* str.lower, on the letters of the content types.
lower(text) ==
    [i \in 1..Len(text) |->
        CASE text[i] = "I" -> "i"
          [] text[i] = "M" -> "m"
          [] text[i] = "A" -> "a"
          [] text[i] = "G" -> "g"
          [] text[i] = "E" -> "e"
          [] OTHER -> text[i]]

\* Reading an attribute the object does not have.
AttributeError ==
    [cls |-> "AttributeError", arg |-> <<"'Response' object has no attribute 'read'">>,
     response_code |-> None, full_msg |-> None, message |-> None, reason |-> None]

\* resp.headers['content-type'] with the header absent.
KeyError ==
    [cls |-> "KeyError", arg |-> <<"content-type">>,
     response_code |-> None, full_msg |-> None, message |-> None, reason |-> None]

NotAnImage == "response is not an image"

\* HTTPClientError('response is not an image: (%s)' % (body))
NotAnImageError(body) ==
    [HTTPClientError(<<NotAnImage, body>>, None, None) EXCEPT !.message = Some(NotAnImage)]

\* ImageSource(BytesIO(resp.content))
ImageSource(content) == [cls |-> "ImageSource", content |-> content]

\* HTTPClient.open_image, lines 216-219, on the outcome of self.open.
open_image(call) ==
    IF call.outcome.how = "raise" THEN call.outcome
    ELSE LET resp == call.outcome.result[1]
         IN IF resp.headers.content_type # None
               /\ ~startswith(lower(resp.headers.content_type[1]), ImageType)
            THEN IF "read" \in DOMAIN resp
                 THEN Raise(NotAnImageError(resp.read))
                 ELSE Raise(AttributeError)
            ELSE Return(ImageSource(resp.content))

\* retrieve_image, lines 298-300, on the outcome of open_url.
retrieve_image(call) ==
    IF call.outcome.how = "raise" THEN call.outcome
    ELSE LET resp == call.outcome.result[1]
         IN IF resp.headers.content_type = None THEN Raise(KeyError)
            ELSE IF ~startswith(resp.headers.content_type[1], ImageType)
            THEN Raise(NotAnImageError(resp.content))
            ELSE Return(ImageSource(resp.content))

\* self.open_image(url): one call on the client self.
OpenImage ==
    \E url \in Urls, bld \in BuildOutcomes, tr \in ImageTransport \cup {NotSent},
       lg \in BOOLEAN :
        LET call == open(self, url, "GET", bld, tr, lg)
        IN /\ IF bld.cls = "ValueError" THEN tr = NotSent /\ ~lg ELSE tr # NotSent
           /\ last' = Some([entry |-> "open_image", call |-> call,
                            outcome |-> open_image(call)])
           /\ UNCHANGED <<self, prevFailure, _opener, sessions, clients, stored, thr,
                          url_in, url_out, url_pc>>

\* retrieve_image(url): auth_data_from_url, a new HTTPClient on the cleaned
\* URL with the credentials taken from it and every other argument at its
\* default, open on that client, and the content-type test.
RetrieveImage ==
    \E url \in ImageUrls, bld \in BuildOutcomes, tr \in ImageTransport \cup {NotSent},
       lg \in BOOLEAN :
        LET ad == auth_data_from_url(url)
            a == [url |-> Some(ad.url), credentials |-> <<ad.username, ad.password>>,
                  insecure |-> FALSE, ssl_ca_certs |-> None, manage_cookies |-> FALSE]
            key == KeyOf(a)
            s == Len(sessions) + 1
            http_client == [hide_error_details |-> FALSE]
            call == open(http_client, ad.url, "GET", bld, tr, lg)
        IN /\ Len(clients) < MaxClients
           /\ IF bld.cls = "ValueError" THEN tr = NotSent /\ ~lg ELSE tr # NotSent
           /\ IF CacheMiss(key)
              THEN /\ sessions' = Append(sessions,
                          Configure(NewSession, EffectiveCaCerts(a),
                                    a.credentials[1], a.credentials[2], a.insecure))
                   /\ _opener' = (key :> s) @@ _opener
                   /\ stored' = stored \cup {<<key, s>>}
                   /\ clients' = Append(clients, [opener |-> s, args |-> a])
              ELSE /\ sessions' = Append(sessions, NewSession)
                   /\ UNCHANGED <<_opener, stored>>
                   /\ clients' = Append(clients, [opener |-> _opener[key], args |-> a])
           /\ last' = Some([entry |-> "retrieve_image", call |-> call,
                            outcome |-> retrieve_image(call)])
           /\ UNCHANGED <<self, prevFailure, thr, url_in, url_out, url_pc>>

InitImage ==
    /\ self \in {[hide_error_details |-> h] : h \in BOOLEAN}
    /\ last = None
    /\ prevFailure = None
    /\ _opener = <<>>
    /\ sessions = <<>>
    /\ clients = <<>>
    /\ stored = {}
    /\ thr = <<>>
    /\ url_in = <<>>
    /\ url_out = <<>>
    /\ url_pc = "idle"

NextImage == OpenImage \/ RetrieveImage

SpecImage == InitImage /\ [][NextImage]_vars

(***************************************************************************)
(* Properties of the image fetches, checked under SpecImage.               *)
(***************************************************************************)
\* The last image fetch received a response and log_request did not raise.
Fetched ==
    /\ last # None
    /\ last[1].call.sent # None
    /\ last[1].call.sent[1].cls = "Response"
    /\ ~last[1].call.log_raised

FetchedType == last[1].call.sent[1].headers.content_type

IsMismatch(o) ==
    /\ o.how = "raise"
    /\ o.exc[1].cls = "HTTPClientError"
    /\ o.exc[1].message = Some(NotAnImage)

\* C15: an image fetch whose response has a content-type header that does
\* not start with 'image' fails with 'response is not an image', whatever
\* the status code of the response.
C15_NonImageIsMismatch ==
    (Fetched /\ FetchedType # None /\ ~startswith(lower(FetchedType[1]), ImageType))
    => IsMismatch(last[1].outcome)

\* C16: both image fetches accept a response exactly when its content-type
\* header is present and starts, compared case-insensitively, with 'image',
\* and fail with the content-type mismatch when the header is absent.
C16_AcceptsExactlyImages ==
    Fetched =>
        /\ last[1].outcome.how = "return"
             <=> (FetchedType # None /\ startswith(lower(FetchedType[1]), ImageType))
        /\ FetchedType = None => IsMismatch(last[1].outcome)

====
